---- MODULE Spec2Model ----
(***************************************************************************)
(* Model of the whisper.cpp JNI bridge (whisper_jni.cpp): one global model *)
(* context g_ctx, one global parameter block g_params, both guarded by the *)
(* std::mutex g_mutex, and the four JNI entry points initModel,            *)
(* transcribe, transcribeWithParams and releaseModel called from several   *)
(* Java threads.  Every entry point is split at the points where another   *)
(* thread could observe it: taking the lock, each statement of the locked  *)
(* section, the engine call, and the return that drops the lock_guard.     *)
(***************************************************************************)
EXTENDS Integers, Sequences, FiniteSets, TLC

(* ------------------------------ bounds --------------------------------- *)
NumThreads == 2
NumHandles == 2
MaxSamples == 2
MaxStubCalls == 3

(* ------------------------- program constants --------------------------- *)
HeaderLen == 44
Scale == 32768
MaxInitThreads == 4
DefaultThreads == 4

Threads == 1..NumThreads
Handles == 1..NumHandles
nullptr == 0

(* A jstring is modelled by its characters; BadUTF is a jstring whose       *)
(* GetStringUTFChars fails, NullChars the null const char* it then returns. *)
BadUTF == "<undecodable>"
NullChars == "<nullptr>"

GetStringUTFChars(js) == IF js = BadUTF THEN NullChars ELSE js

(* ------------------------------ WAV reader ----------------------------- *)
\* int16_t read from two bytes in memory order on a little-endian target
LE16(b0, b1) ==
    LET u == b0 + 256 * b1 IN IF u >= 32768 THEN u - 65536 ELSE u

\* static_cast<float>(sample) / 32768.0f: exact in binary32, kept as the
\* fraction <<numerator, denominator>>
ToFloat(sample) == <<sample, Scale>>

\* the fread loop: one 2-byte element per iteration until fread returns 0
RECURSIVE ReadSamples(_, _, _)
ReadSamples(file, pos, acc) ==
    IF pos + 2 <= Len(file)
    THEN ReadSamples(file, pos + 2,
                     Append(acc, ToFloat(LE16(file[pos + 1], file[pos + 2]))))
    ELSE acc

\* the read loop started at the first byte of the file
ReadWav_noSeek(file) == ReadSamples(file, 0, <<>>)

\* fseek(file, 44, SEEK_SET) then the read loop
ReadWav(file) == ReadSamples(file, HeaderLen, <<>>)

(* ------------------------------ inputs --------------------------------- *)
\* a 44-byte header with non-zero contents
Header == [i \in 1..HeaderLen |-> (i * 7) % 256]

\* the audio files on disk, by path; a path outside the domain cannot be opened
AudioFiles ==
    [p \in {"hdr.wav", "short.wav", "ok.wav"} |->
        CASE p = "hdr.wav"   -> Header
          [] p = "short.wav" -> SubSeq(Header, 1, HeaderLen - 1)
          [] p = "ok.wav"    -> Header \o <<0, 128, 255, 127, 9>>]

AudioPaths == {"missing.wav", "hdr.wav", "short.wav", "ok.wav", BadUTF}

\* model files: whisper_init_from_file_with_params succeeds on the first only
ModelPaths == {"model.bin", "corrupt.bin", BadUTF}
ValidModels == {"model.bin"}

LanguageArgs == {"fr", "", BadUTF}
ThreadsArgs == {-5, 0, 8}
HwConcurrency == {0, 2, 8}

\* what whisper_full leaves in the context: segment texts, NullChars for a
\* segment whose text pointer is null
SegResults == {<<>>, <<"ab", NullChars, "c">>}
FullStatus == {0, -1}

Ops == {"initModel", "transcribe", "transcribeWithParams", "releaseModel"}

(* ------------------------------- state --------------------------------- *)
VARIABLES
    g_ctx,      \* whisper_context* g_ctx: nullptr or a handle
    g_mutex,    \* std::mutex g_mutex: 0 when free, else the owning thread
    g_params,   \* whisper_params g_params
    live,       \* engine: contexts created and not yet freed
    segments,   \* engine: segment texts held by each context
    pc,         \* per thread: position in the entry point it runs
    op,         \* per thread: the JNI entry point it was called through
    args,       \* per thread: the JNI arguments and locals of the running section;
                \* of the override arguments, dead after line 212, translate is
                \* kept until the delegated transcribe returns
    pcm,        \* per thread: std::vector<float> pcm_data
    wparams,    \* per thread: the whisper_full_params passed to whisper_full
    ret,        \* per thread: the value about to be returned
    atLock,     \* history: g_ctx, g_params, live when g_mutex was last taken
    nfull,      \* history: whisper_full calls made by the thread's current call
    badFree,    \* history: whisper_free was given a context that is not live
    staleUse,   \* history: whisper_full was given a context that is not live
    wavFile, wavHeader, wavSamples, wavTail, wavPcm, wavDone, \* WAV reader harness
    stubCall,   \* stub build: the last native method called, then its arguments
    stubRet,    \* stub build: what that call returned
    stubCount   \* stub build: calls made so far

bridgeVars == <<g_ctx, g_mutex, g_params, live, segments, pc, op, args, pcm,
                wparams, ret, atLock, nfull, badFree, staleUse>>
wavVars == <<wavFile, wavHeader, wavSamples, wavTail, wavPcm, wavDone>>
stubVars == <<stubCall, stubRet, stubCount>>
vars == <<bridgeVars, wavVars, stubVars>>

\* struct whisper_params default member initializers
whisper_params ==
    [n_threads |-> DefaultThreads, offset_ms |-> 0, duration_ms |-> 0,
     translate |-> FALSE, print_special |-> FALSE, print_progress |-> FALSE,
     no_timestamps |-> TRUE, language |-> "en"]

NoArgs == [none |-> TRUE]
NoRet == [kind |-> "none"]
NoWParams == [none |-> TRUE]
Snapshot == [ctx |-> g_ctx, params |-> g_params, live |-> live]
NoSnapshot == [none |-> TRUE]

RetInt(c) == [kind |-> "jint", code |-> c]
RetString(s) == [kind |-> "jstring", text |-> s]
RetVoid == [kind |-> "void"]

InitBridge ==
    /\ g_ctx = nullptr
    /\ g_mutex = 0
    /\ g_params = whisper_params
    /\ live = {}
    /\ segments = [h \in Handles |-> <<>>]
    /\ pc = [t \in Threads |-> "idle"]
    /\ op = [t \in Threads |-> "none"]
    /\ args = [t \in Threads |-> NoArgs]
    /\ pcm = [t \in Threads |-> <<>>]
    /\ wparams = [t \in Threads |-> NoWParams]
    /\ ret = [t \in Threads |-> NoRet]
    /\ atLock = NoSnapshot
    /\ nfull = [t \in Threads |-> 0]
    /\ badFree = FALSE
    /\ staleUse = FALSE

InitWavIdle ==
    /\ wavFile = <<>>
    /\ wavHeader = <<>>
    /\ wavSamples = <<>>
    /\ wavTail = <<>>
    /\ wavPcm = <<>>
    /\ wavDone = FALSE

NoStubCall == <<"none">>

InitStubIdle ==
    /\ stubCall = NoStubCall
    /\ stubRet = NoRet
    /\ stubCount = 0

Init == InitBridge /\ InitWavIdle /\ InitStubIdle

(* ------------------------------ the mutex ------------------------------ *)
\* std::lock_guard constructor: blocks until g_mutex is free, then owns it
Lock_noWait(t) ==
    /\ g_mutex' = t
    /\ atLock' = Snapshot

Lock(t) ==
    /\ g_mutex = 0
    /\ g_mutex' = t
    /\ atLock' = Snapshot

\* std::lock_guard destructor
Unlock(t) ==
    /\ g_mutex' = 0
    /\ atLock' = NoSnapshot

(* ------------------------------ the engine ----------------------------- *)
\* whisper_free(ctx)
whisper_free(h) ==
    /\ live' = live \ {h}
    /\ segments' = [segments EXCEPT ![h] = <<>>]
    /\ badFree' = (badFree \/ h \notin live)

\* whisper_init_from_file_with_params(path, cparams): a fresh context for a
\* loadable model file, nullptr otherwise
whisper_init_from_file_with_params(path) ==
    IF path \in ValidModels /\ Handles \ live # {}
    THEN Handles \ live
    ELSE {nullptr}

Goto(t, label) == pc' = [pc EXCEPT ![t] = label]
Return(t, v) == ret' = [ret EXCEPT ![t] = v]

\* a Java thread calls one of the four native methods
Call(t) ==
    /\ pc[t] = "idle"
    /\ \E o \in Ops :
          /\ op' = [op EXCEPT ![t] = o]
          /\ Goto(t, CASE o = "initModel" -> "init_lock"
                       [] o = "transcribe" -> "tr_lock"
                       [] o = "transcribeWithParams" -> "twp_lock"
                       [] o = "releaseModel" -> "rel_lock")
    /\ nfull' = [nfull EXCEPT ![t] = 0]
    /\ UNCHANGED <<g_ctx, g_mutex, g_params, live, segments, args, pcm, wparams,
                   ret, atLock, badFree, staleUse, wavVars, stubVars>>

\* the native method returns to Java: the lock_guard is destroyed
Exit(t) ==
    /\ Unlock(t)
    /\ Goto(t, "idle")
    /\ op' = [op EXCEPT ![t] = "none"]
    /\ args' = [args EXCEPT ![t] = NoArgs]
    /\ pcm' = [pcm EXCEPT ![t] = <<>>]
    /\ wparams' = [wparams EXCEPT ![t] = NoWParams]
    /\ ret' = [ret EXCEPT ![t] = NoRet]
    /\ nfull' = [nfull EXCEPT ![t] = 0]
    /\ UNCHANGED <<g_ctx, g_params, live, segments, badFree, staleUse, wavVars, stubVars>>

(* ------------------------------ initModel ------------------------------ *)
\* line 55: std::lock_guard<std::mutex> lock(g_mutex)
initModel_lock(t) ==
    /\ pc[t] = "init_lock"
    /\ Lock(t)
    /\ \E p \in ModelPaths : args' = [args EXCEPT ![t] = [modelPath |-> p]]
    /\ Goto(t, "init_free")
    /\ UNCHANGED <<g_ctx, g_params, live, segments, op, pcm, wparams, ret,
                   nfull, badFree, staleUse, wavVars, stubVars>>

\* the same entry without lines 58-61: the old context is overwritten, not freed
initModel_free_leak(t) ==
    /\ pc[t] = "init_free"
    /\ Goto(t, "init_path")
    /\ UNCHANGED <<g_ctx, g_mutex, g_params, live, segments, op, args, pcm,
                   wparams, ret, atLock, nfull, badFree, staleUse, wavVars, stubVars>>

\* lines 58-61: release the existing model, if any
initModel_free(t) ==
    /\ pc[t] = "init_free"
    /\ IF g_ctx # nullptr
       THEN /\ whisper_free(g_ctx)
            /\ g_ctx' = nullptr
       ELSE UNCHANGED <<g_ctx, live, segments, badFree>>
    /\ Goto(t, "init_path")
    /\ UNCHANGED <<g_mutex, g_params, op, args, pcm, wparams, ret, atLock,
                   nfull, staleUse, wavVars, stubVars>>

\* lines 63-67: GetStringUTFChars(modelPath); a null result returns -1
initModel_path(t) ==
    /\ pc[t] = "init_path"
    /\ IF GetStringUTFChars(args[t].modelPath) = NullChars
       THEN Return(t, RetInt(-1)) /\ Goto(t, "init_ret")
       ELSE UNCHANGED ret /\ Goto(t, "init_load")
    /\ UNCHANGED <<g_ctx, g_mutex, g_params, live, segments, op, args, pcm,
                   wparams, atLock, nfull, badFree, staleUse, wavVars, stubVars>>

\* lines 75-82 with the failed load keeping the previous pointer value
initModel_load_keep(t) ==
    /\ pc[t] = "init_load"
    /\ \E c \in whisper_init_from_file_with_params(GetStringUTFChars(args[t].modelPath)) :
          /\ g_ctx' = IF c = nullptr THEN atLock.ctx ELSE c
          /\ live' = IF c = nullptr THEN live ELSE live \cup {c}
          /\ IF c = nullptr
             THEN Return(t, RetInt(-2)) /\ Goto(t, "init_ret")
             ELSE UNCHANGED ret /\ Goto(t, "init_threads")
    /\ UNCHANGED <<g_mutex, g_params, segments, op, args, pcm, wparams, atLock,
                   nfull, badFree, staleUse, wavVars, stubVars>>

\* lines 75-82: g_ctx = whisper_init_from_file_with_params(...); a null
\* result returns -2
initModel_load(t) ==
    /\ pc[t] = "init_load"
    /\ \E c \in whisper_init_from_file_with_params(GetStringUTFChars(args[t].modelPath)) :
          /\ g_ctx' = c
          /\ live' = IF c = nullptr THEN live ELSE live \cup {c}
          /\ IF c = nullptr
             THEN Return(t, RetInt(-2)) /\ Goto(t, "init_ret")
             ELSE UNCHANGED ret /\ Goto(t, "init_threads")
    /\ UNCHANGED <<g_mutex, g_params, segments, op, args, pcm, wparams, atLock,
                   nfull, badFree, staleUse, wavVars, stubVars>>

Min(a, b) == IF a < b THEN a ELSE b

\* lines 85-89 on a freshly constructed whisper_params
initModel_threads_reset(t) ==
    /\ pc[t] = "init_threads"
    /\ \E n_cores \in HwConcurrency :
          /\ g_params' = [whisper_params EXCEPT
                             !.n_threads = Min(n_cores, MaxInitThreads)]
          /\ args' = [args EXCEPT ![t] =
                         [modelPath |-> @.modelPath, n_cores |-> n_cores]]
    /\ Return(t, RetInt(0))
    /\ Goto(t, "init_ret")
    /\ UNCHANGED <<g_ctx, g_mutex, live, segments, op, pcm, wparams,
                   atLock, nfull, badFree, staleUse, wavVars, stubVars>>

\* lines 85-89 storing the core count itself
initModel_threads_noMin(t) ==
    /\ pc[t] = "init_threads"
    /\ \E n_cores \in HwConcurrency :
          /\ g_params' = [g_params EXCEPT !.n_threads = n_cores]
          /\ args' = [args EXCEPT ![t] =
                         [modelPath |-> @.modelPath, n_cores |-> n_cores]]
    /\ Return(t, RetInt(0))
    /\ Goto(t, "init_ret")
    /\ UNCHANGED <<g_ctx, g_mutex, live, segments, op, pcm, wparams,
                   atLock, nfull, badFree, staleUse, wavVars, stubVars>>

\* lines 85-89: n_threads = std::min(hardware_concurrency(), 4); return 0
initModel_threads(t) ==
    /\ pc[t] = "init_threads"
    /\ \E n_cores \in HwConcurrency :
          /\ g_params' = [g_params EXCEPT !.n_threads = Min(n_cores, MaxInitThreads)]
          /\ args' = [args EXCEPT ![t] =
                         [modelPath |-> @.modelPath, n_cores |-> n_cores]]
    /\ Return(t, RetInt(0))
    /\ Goto(t, "init_ret")
    /\ UNCHANGED <<g_ctx, g_mutex, live, segments, op, pcm, wparams,
                   atLock, nfull, badFree, staleUse, wavVars, stubVars>>

\* initModel returns; the lock_guard releases g_mutex
initModel_return(t) ==
    /\ pc[t] = "init_ret"
    /\ Exit(t)

(* ----------------------------- releaseModel ---------------------------- *)
\* line 228
releaseModel_lock(t) ==
    /\ pc[t] = "rel_lock"
    /\ Lock(t)
    /\ Goto(t, "rel_free")
    /\ UNCHANGED <<g_ctx, g_params, live, segments, op, args, pcm, wparams, ret,
                   nfull, badFree, staleUse, wavVars, stubVars>>

\* lines 230-234 without the reset of g_ctx
releaseModel_free_dangling(t) ==
    /\ pc[t] = "rel_free"
    /\ IF g_ctx # nullptr
       THEN whisper_free(g_ctx)
       ELSE UNCHANGED <<live, segments, badFree>>
    /\ Return(t, RetVoid)
    /\ Goto(t, "rel_ret")
    /\ UNCHANGED <<g_ctx, g_mutex, g_params, op, args, pcm, wparams, atLock,
                   nfull, staleUse, wavVars, stubVars>>

\* lines 230-234
releaseModel_free(t) ==
    /\ pc[t] = "rel_free"
    /\ IF g_ctx # nullptr
       THEN /\ whisper_free(g_ctx)
            /\ g_ctx' = nullptr
       ELSE UNCHANGED <<g_ctx, live, segments, badFree>>
    /\ Return(t, RetVoid)
    /\ Goto(t, "rel_ret")
    /\ UNCHANGED <<g_mutex, g_params, op, args, pcm, wparams, atLock,
                   nfull, staleUse, wavVars, stubVars>>

\* releaseModel returns; the lock_guard releases g_mutex
releaseModel_return(t) ==
    /\ pc[t] = "rel_ret"
    /\ Exit(t)

(* ------------------------------ transcribe ----------------------------- *)
\* line 103
transcribe_lock(t) ==
    /\ pc[t] = "tr_lock"
    /\ Lock(t)
    /\ \E a \in AudioPaths :
          args' = [args EXCEPT ![t] =
                      IF op[t] = "transcribeWithParams"
                      THEN [audioPath |-> a, translate |-> @.translate]
                      ELSE [audioPath |-> a]]
    /\ Goto(t, "tr_check")
    /\ UNCHANGED <<g_ctx, g_params, live, segments, op, pcm, wparams, ret,
                   nfull, badFree, staleUse, wavVars, stubVars>>

\* the entry without the test of lines 105-108
transcribe_check_skip(t) ==
    /\ pc[t] = "tr_check"
    /\ UNCHANGED ret /\ Goto(t, "tr_path")
    /\ UNCHANGED <<g_ctx, g_mutex, g_params, live, segments, op, args, pcm,
                   wparams, atLock, nfull, badFree, staleUse, wavVars, stubVars>>

\* lines 105-108: no model, return ""
transcribe_check(t) ==
    /\ pc[t] = "tr_check"
    /\ IF g_ctx = nullptr
       THEN Return(t, RetString("")) /\ Goto(t, "tr_ret")
       ELSE UNCHANGED ret /\ Goto(t, "tr_path")
    /\ UNCHANGED <<g_ctx, g_mutex, g_params, live, segments, op, args, pcm,
                   wparams, atLock, nfull, badFree, staleUse, wavVars, stubVars>>

\* lines 110-114: GetStringUTFChars(audioPath); a null result returns ""
transcribe_path(t) ==
    /\ pc[t] = "tr_path"
    /\ IF GetStringUTFChars(args[t].audioPath) = NullChars
       THEN Return(t, RetString("")) /\ Goto(t, "tr_ret")
       ELSE UNCHANGED ret /\ Goto(t, "tr_read")
    /\ UNCHANGED <<g_ctx, g_mutex, g_params, live, segments, op, args, pcm,
                   wparams, atLock, nfull, badFree, staleUse, wavVars, stubVars>>

\* lines 119-141: fopen; on failure return ""; else skip the header, read
\* the samples, fclose
transcribe_read(t) ==
    /\ pc[t] = "tr_read"
    /\ LET path == GetStringUTFChars(args[t].audioPath) IN
       IF path \notin DOMAIN AudioFiles
       THEN /\ Return(t, RetString("")) /\ Goto(t, "tr_ret")
            /\ UNCHANGED pcm
       ELSE /\ pcm' = [pcm EXCEPT ![t] = ReadWav(AudioFiles[path])]
            /\ UNCHANGED ret /\ Goto(t, "tr_empty")
    /\ UNCHANGED <<g_ctx, g_mutex, g_params, live, segments, op, args,
                   wparams, atLock, nfull, badFree, staleUse, wavVars, stubVars>>

\* the entry without the test of lines 143-146
transcribe_empty_skip(t) ==
    /\ pc[t] = "tr_empty"
    /\ UNCHANGED ret /\ Goto(t, "tr_full")
    /\ UNCHANGED <<g_ctx, g_mutex, g_params, live, segments, op, args, pcm,
                   wparams, atLock, nfull, badFree, staleUse, wavVars, stubVars>>

\* lines 143-146: no samples, return ""
transcribe_empty(t) ==
    /\ pc[t] = "tr_empty"
    /\ IF pcm[t] = <<>>
       THEN Return(t, RetString("")) /\ Goto(t, "tr_ret")
       ELSE UNCHANGED ret /\ Goto(t, "tr_full")
    /\ UNCHANGED <<g_ctx, g_mutex, g_params, live, segments, op, args, pcm,
                   wparams, atLock, nfull, badFree, staleUse, wavVars, stubVars>>

\* lines 151-164: whisper_full_default_params(WHISPER_SAMPLING_GREEDY) with
\* the fields the bridge sets
FullParams ==
    [strategy |-> "WHISPER_SAMPLING_GREEDY",
     print_realtime |-> FALSE,
     print_progress |-> g_params.print_progress,
     print_timestamps |-> ~g_params.no_timestamps,
     print_special |-> g_params.print_special,
     translate |-> g_params.translate,
     language |-> g_params.language,
     n_threads |-> g_params.n_threads,
     offset_ms |-> g_params.offset_ms,
     duration_ms |-> g_params.duration_ms,
     single_segment |-> TRUE]

\* lines 151-166: build wparams and enter whisper_full(g_ctx, wparams, ...)
transcribe_full(t) ==
    /\ pc[t] = "tr_full"
    /\ wparams' = [wparams EXCEPT ![t] = FullParams]
    /\ nfull' = [nfull EXCEPT ![t] = @ + 1]
    /\ staleUse' = (staleUse \/ g_ctx \notin live)
    /\ Goto(t, "tr_infer")
    /\ UNCHANGED <<g_ctx, g_mutex, g_params, live, segments, op, args, pcm,
                   ret, atLock, badFree, wavVars, stubVars>>

\* lines 166-169: whisper_full returns; a nonzero status returns ""
transcribe_infer(t) ==
    /\ pc[t] = "tr_infer"
    /\ \E status \in FullStatus, segs \in SegResults :
          /\ segments' = IF g_ctx \in Handles
                         THEN [segments EXCEPT ![g_ctx] =
                                  IF status = 0 THEN segs ELSE <<>>]
                         ELSE segments
          /\ args' = [args EXCEPT ![t] = [f \in DOMAIN @ \cup {"status"} |->
                                             IF f = "status" THEN status ELSE @[f]]]
          /\ IF status # 0
             THEN Return(t, RetString("")) /\ Goto(t, "tr_ret")
             ELSE UNCHANGED ret /\ Goto(t, "tr_collect")
    /\ staleUse' = (staleUse \/ g_ctx \notin live)
    /\ UNCHANGED <<g_ctx, g_mutex, g_params, live, op, pcm, wparams,
                   atLock, nfull, badFree, wavVars, stubVars>>

\* the loop of lines 175-180 putting each text in front of the result
RECURSIVE CollectText_prepend(_, _, _)
CollectText_prepend(segs, i, result) ==
    IF i > Len(segs) THEN result
    ELSE CollectText_prepend(segs, i + 1,
                     IF segs[i] # NullChars THEN segs[i] \o result ELSE result)

\* the loop of lines 175-180 over segments i..n_segments-1: result += text
\* for every segment whose text is not null
RECURSIVE CollectText(_, _, _)
CollectText(segs, i, result) ==
    IF i > Len(segs) THEN result
    ELSE CollectText(segs, i + 1,
                     IF segs[i] # NullChars THEN result \o segs[i] ELSE result)

\* lines 172-184: collect the segment texts and return them
transcribe_collect(t) ==
    /\ pc[t] = "tr_collect"
    /\ LET segs == IF g_ctx \in Handles THEN segments[g_ctx] ELSE <<>> IN
       Return(t, RetString(CollectText(segs, 1, "")))
    /\ staleUse' = (staleUse \/ g_ctx \notin live)
    /\ Goto(t, "tr_ret")
    /\ UNCHANGED <<g_ctx, g_mutex, g_params, live, segments, op, args, pcm,
                   wparams, atLock, nfull, badFree, wavVars, stubVars>>

\* transcribe returns; the lock_guard releases g_mutex
transcribe_return(t) ==
    /\ pc[t] = "tr_ret"
    /\ Exit(t)

(* ------------------------- transcribeWithParams ------------------------ *)
\* line 201
transcribeWithParams_lock(t) ==
    /\ pc[t] = "twp_lock"
    /\ Lock(t)
    /\ \E l \in LanguageArgs, tr \in BOOLEAN, n \in ThreadsArgs :
          args' = [args EXCEPT ![t] =
                      [language |-> l, translate |-> tr, threads |-> n]]
    /\ Goto(t, "twp_update")
    /\ UNCHANGED <<g_ctx, g_params, live, segments, op, pcm, wparams, ret,
                   nfull, badFree, staleUse, wavVars, stubVars>>

\* lines 203-212 storing threads without the test of line 210
transcribeWithParams_update_anyThreads(t) ==
    /\ pc[t] = "twp_update"
    /\ LET lang == GetStringUTFChars(args[t].language) IN
       g_params' = [g_params EXCEPT
                       !.language = IF lang # NullChars THEN lang ELSE @,
                       !.translate = args[t].translate,
                       !.n_threads = args[t].threads]
    /\ Goto(t, "twp_unlock")
    /\ UNCHANGED <<g_ctx, g_mutex, live, segments, op, args, pcm, wparams, ret,
                   atLock, nfull, badFree, staleUse, wavVars, stubVars>>

\* lines 203-212 storing the language only when it is not empty
transcribeWithParams_update_skipEmpty(t) ==
    /\ pc[t] = "twp_update"
    /\ LET lang == GetStringUTFChars(args[t].language) IN
       g_params' = [g_params EXCEPT
                       !.language = IF lang # NullChars /\ lang # "" THEN lang ELSE @,
                       !.translate = args[t].translate,
                       !.n_threads = IF args[t].threads > 0
                                     THEN args[t].threads ELSE @]
    /\ Goto(t, "twp_unlock")
    /\ UNCHANGED <<g_ctx, g_mutex, live, segments, op, args, pcm, wparams, ret,
                   atLock, nfull, badFree, staleUse, wavVars, stubVars>>

\* lines 203-212 applied only when a model is loaded
transcribeWithParams_update_needsModel(t) ==
    /\ pc[t] = "twp_update"
    /\ LET lang == GetStringUTFChars(args[t].language) IN
       g_params' = IF g_ctx = nullptr THEN g_params
                   ELSE [g_params EXCEPT
                       !.language = IF lang # NullChars THEN lang ELSE @,
                       !.translate = args[t].translate,
                       !.n_threads = IF args[t].threads > 0
                                     THEN args[t].threads ELSE @]
    /\ Goto(t, "twp_unlock")
    /\ UNCHANGED <<g_ctx, g_mutex, live, segments, op, args, pcm, wparams, ret,
                   atLock, nfull, badFree, staleUse, wavVars, stubVars>>

\* lines 203-212: language if it decodes, translate always, n_threads if
\* threads > 0
transcribeWithParams_update(t) ==
    /\ pc[t] = "twp_update"
    /\ LET lang == GetStringUTFChars(args[t].language) IN
       g_params' = [g_params EXCEPT
                       !.language = IF lang # NullChars THEN lang ELSE @,
                       !.translate = args[t].translate,
                       !.n_threads = IF args[t].threads > 0
                                     THEN args[t].threads ELSE @]
    /\ Goto(t, "twp_unlock")
    /\ UNCHANGED <<g_ctx, g_mutex, live, segments, op, args, pcm, wparams, ret,
                   atLock, nfull, badFree, staleUse, wavVars, stubVars>>

\* lines 213-217 with the lock_guard's scope reaching over the call of
\* transcribe
transcribeWithParams_unlock_held(t) ==
    /\ pc[t] = "twp_unlock"
    /\ args' = [args EXCEPT ![t] = [translate |-> @.translate]]
    /\ Goto(t, "tr_lock")
    /\ UNCHANGED <<g_ctx, g_mutex, g_params, live, segments, op, pcm, wparams,
                   ret, atLock, nfull, badFree, staleUse, wavVars, stubVars>>

\* lines 213-217: the lock_guard's scope ends, then transcribe is called
transcribeWithParams_unlock(t) ==
    /\ pc[t] = "twp_unlock"
    /\ Unlock(t)
    /\ args' = [args EXCEPT ![t] = [translate |-> @.translate]]
    /\ Goto(t, "tr_lock")
    /\ UNCHANGED <<g_ctx, g_params, live, segments, op, pcm, wparams, ret,
                   nfull, badFree, staleUse, wavVars, stubVars>>

(* ----------------------------- specification --------------------------- *)
Next ==
    \E t \in Threads :
        \/ Call(t)
        \/ initModel_lock(t)
        \/ initModel_free(t)
        \/ initModel_path(t)
        \/ initModel_load(t)
        \/ initModel_threads(t)
        \/ initModel_return(t)
        \/ transcribe_lock(t)
        \/ transcribe_check(t)
        \/ transcribe_path(t)
        \/ transcribe_read(t)
        \/ transcribe_empty(t)
        \/ transcribe_full(t)
        \/ transcribe_infer(t)
        \/ transcribe_collect(t)
        \/ transcribe_return(t)
        \/ transcribeWithParams_lock(t)
        \/ transcribeWithParams_update(t)
        \/ transcribeWithParams_unlock(t)
        \/ releaseModel_lock(t)
        \/ releaseModel_free(t)
        \/ releaseModel_return(t)

Spec == Init /\ [][Next]_vars

(* --------------------------- WAV reader harness ------------------------ *)
\* The reader of lines 129-138 run alone on files built from a header, a
\* list of 16-bit samples and a tail of left-over bytes.
SampleValues == {-32768, -1, 0, 1, 32767}

RECURSIVE SeqsUpTo(_, _)
SeqsUpTo(S, n) ==
    IF n = 0 THEN {<<>>}
    ELSE LET shorter == SeqsUpTo(S, n - 1) IN
         shorter \cup {Append(q, x) : q \in {r \in shorter : Len(r) = n - 1}, x \in S}

\* a sample as the two bytes a 16-bit little-endian PCM file holds for it
SampleBytes(smp) ==
    LET u == IF smp < 0 THEN smp + 65536 ELSE smp IN <<u % 256, u \div 256>>

RECURSIVE PcmBytes(_)
PcmBytes(ss) ==
    IF ss = <<>> THEN <<>> ELSE SampleBytes(Head(ss)) \o PcmBytes(Tail(ss))

WavHeaders == {Header, [i \in 1..HeaderLen |-> 255]}
ShortHeaders == {SubSeq(Header, 1, n) : n \in {0, 1, HeaderLen - 1}}
WavTails == {<<>>, <<200>>}

InitWav ==
    /\ InitBridge
    /\ \/ /\ wavHeader \in WavHeaders
          /\ wavSamples \in SeqsUpTo(SampleValues, MaxSamples)
          /\ wavTail \in WavTails
       \/ /\ wavHeader \in ShortHeaders
          /\ wavSamples = <<>>
          /\ wavTail = <<>>
    /\ wavFile = wavHeader \o PcmBytes(wavSamples) \o wavTail
    /\ wavPcm = <<>>
    /\ wavDone = FALSE
    /\ InitStubIdle

\* lines 129-138 on wavFile
DecodeWav ==
    /\ ~wavDone
    /\ wavPcm' = ReadWav(wavFile)
    /\ wavDone' = TRUE
    /\ UNCHANGED <<bridgeVars, wavFile, wavHeader, wavSamples, wavTail, stubVars>>

NextWav == DecodeWav

SpecWav == InitWav /\ [][NextWav]_vars

(* ------------------------------- claims -------------------------------- *)
\* positions inside a section guarded by g_mutex
InSection(t) == pc[t] \notin {"idle", "init_lock", "tr_lock", "twp_lock", "rel_lock"}
InTranscribe(t) ==
    pc[t] \in {"tr_check", "tr_path", "tr_read", "tr_empty", "tr_full",
               "tr_infer", "tr_collect", "tr_ret"}

\* C1: at most one context is live in every reachable state, the only live
\* context is the one g_ctx points to (nothing is leaked), and when initModel
\* is about to ask the engine for a new context the previous one has already
\* been destroyed.
C1_AtMostOneLive ==
    /\ Cardinality(live) <= 1
    /\ live \subseteq {g_ctx}
    /\ \A t \in Threads : pc[t] = "init_load" => live = {}

\* an initModel that found a context set is about to load the new one
C1_Witness ==
    \E t \in Threads :
        pc[t] = "init_load" /\ atLock.ctx # nullptr /\ g_ctx = nullptr

\* C2: no two threads are inside a locked section at once, a thread inside
\* one owns g_mutex, and at most one whisper_full call is in progress.
C2_MutualExclusion ==
    /\ \A t1, t2 \in Threads : InSection(t1) /\ InSection(t2) => t1 = t2
    /\ \A t \in Threads : InSection(t) => g_mutex = t
    /\ Cardinality({t \in Threads : pc[t] = "tr_infer"}) <= 1

\* one thread is inside whisper_full while another, between the two
\* sections of its transcribeWithParams call, waits for the lock
C2_Witness ==
    \E t1, t2 \in Threads :
        /\ pc[t1] = "tr_infer"
        /\ pc[t2] = "tr_lock" /\ op[t2] = "transcribeWithParams"

\* C3: when initModel is about to return, either it returns -1, the path did
\* not decode and g_ctx is null; or it returns -2, the path decoded, the
\* engine did not load it and g_ctx is null; or it returns 0 and g_ctx is a
\* live context. So a failed initModel returns -1 or -2 by failure class,
\* never 0, and leaves no handle set whatever was set before the call.
C3_FailedInit ==
    \A t \in Threads :
        pc[t] = "init_ret" =>
            LET decoded == GetStringUTFChars(args[t].modelPath) # NullChars IN
            \/ ret[t] = RetInt(-1) /\ ~decoded /\ g_ctx = nullptr
            \/ /\ ret[t] = RetInt(-2) /\ decoded /\ g_ctx = nullptr
               /\ args[t].modelPath \notin ValidModels
            \/ /\ ret[t] = RetInt(0) /\ decoded /\ g_ctx \in live
               /\ args[t].modelPath \in ValidModels

\* a load failure in a call that found a context set
C3_Witness ==
    \E t \in Threads :
        pc[t] = "init_ret" /\ ret[t] = RetInt(-2) /\ atLock.ctx # nullptr

\* C4: a transcribe section entered with g_ctx null goes from its first test
\* straight to its return, returns "", makes no whisper_full call and leaves
\* g_ctx, g_params and the engine's contexts as they were.
C4_TranscribeUnset ==
    \A t \in Threads :
        InTranscribe(t) /\ g_mutex = t /\ atLock.ctx = nullptr =>
            /\ pc[t] \in {"tr_check", "tr_ret"}
            /\ pc[t] = "tr_ret" => ret[t] = RetString("")
            /\ nfull[t] = 0
            /\ Snapshot = atLock

\* a plain transcribe that found no model is about to return
C4_Witness ==
    \E t \in Threads :
        /\ pc[t] = "tr_ret" /\ op[t] = "transcribe"
        /\ atLock.ctx = nullptr /\ ret[t] = RetString("")

\* C5: when releaseModel is about to return g_ctx is null and nothing but
\* void is reported; if g_ctx was null on entry nothing at all has changed
\* (so a second release adds nothing to the first); and no whisper_free call
\* is ever given a context that is not live.
C5_ReleaseIdempotent ==
    /\ ~badFree
    /\ \A t \in Threads :
          pc[t] = "rel_ret" =>
              /\ g_ctx = nullptr
              /\ live = atLock.live \ {atLock.ctx}
              /\ g_params = atLock.params
              /\ ret[t] = RetVoid
              /\ atLock.ctx = nullptr => Snapshot = atLock

\* a releaseModel that found no context is about to return
C5_Witness ==
    \E t \in Threads : pc[t] = "rel_ret" /\ atLock.ctx = nullptr

\* C6: after the update section of transcribeWithParams the stored translate
\* flag is the argument, and the stored thread count is the argument if it
\* is positive and its value before the call otherwise.
C6_ThreadsTranslate ==
    \A t \in Threads :
        pc[t] = "twp_unlock" =>
            /\ g_params.translate = args[t].translate
            /\ g_params.n_threads =
                  IF args[t].threads > 0 THEN args[t].threads
                  ELSE atLock.params.n_threads

\* threads = -5 left a thread count that an earlier call had set to 8
C6_Witness ==
    \E t \in Threads :
        /\ pc[t] = "twp_unlock" /\ args[t].threads = -5
        /\ atLock.params.n_threads = 8 /\ g_params.n_threads = 8

\* C7 as stated: after the update section the stored language is unchanged
\* when the argument is empty or does not decode, and is the argument
\* otherwise.
C7_Original ==
    \A t \in Threads :
        pc[t] = "twp_unlock" =>
            g_params.language =
                IF args[t].language \in {"", BadUTF}
                THEN atLock.params.language ELSE args[t].language

\* C7 amended: after the update section the stored language is unchanged
\* when the argument does not decode, and is the argument, the empty string
\* included, whenever it decodes.
C7_LanguageOverride ==
    \A t \in Threads :
        pc[t] = "twp_unlock" =>
            g_params.language =
                IF args[t].language = BadUTF
                THEN atLock.params.language ELSE args[t].language

\* an empty language argument replaced a non-empty stored language
C7_Witness ==
    \E t \in Threads :
        /\ pc[t] = "twp_unlock" /\ args[t].language = ""
        /\ atLock.params.language # "" /\ g_params.language = ""

\* C8 as stated: the stored thread count is at least 1 in every reachable
\* state, and every whisper_full call is given a thread count of at least 1.
C8_ThreadsPositive ==
    /\ g_params.n_threads >= 1
    /\ \A t \in Threads : pc[t] = "tr_infer" => wparams[t].n_threads >= 1

\* files the reader gets no sample from: not there, or no longer than the header
NoSamples(path) ==
    \/ path = "missing.wav"
    \/ path \in DOMAIN AudioFiles /\ Len(AudioFiles[path]) <= HeaderLen

\* C9: a transcribe section entered with a model loaded and given a file
\* that cannot be opened or holds at most 44 bytes never gets past the test
\* for an empty sample buffer: it returns "", makes no whisper_full call and
\* leaves g_ctx, g_params and the engine's contexts as they were.
C9_TranscribeNoSamples ==
    \A t \in Threads :
        /\ InTranscribe(t) /\ g_mutex = t /\ atLock.ctx # nullptr
        /\ NoSamples(args[t].audioPath)
        => /\ pc[t] \in {"tr_check", "tr_path", "tr_read", "tr_empty", "tr_ret"}
           /\ pc[t] = "tr_ret" => ret[t] = RetString("")
           /\ pcm[t] = <<>>
           /\ nfull[t] = 0
           /\ Snapshot = atLock

\* with a model loaded, transcribe of the 44-byte file is about to return ""
C9_Witness ==
    \E t \in Threads :
        /\ pc[t] = "tr_ret" /\ atLock.ctx # nullptr /\ g_ctx # nullptr
        /\ args[t].audioPath = "hdr.wav" /\ ret[t] = RetString("")

\* C10: for a file made of a 44-byte header, N samples and at most one
\* left-over byte, the reader returns exactly N values, the i-th being the
\* i-th sample over 32768, which lies in [-1, 1); the same values come out
\* whatever the header bytes are.
C10_WavDecode ==
    wavDone /\ Len(wavHeader) = HeaderLen =>
        /\ Len(wavPcm) = Len(wavSamples)
        /\ \A i \in 1..Len(wavSamples) :
              /\ wavPcm[i] = <<wavSamples[i], Scale>>
              /\ -wavPcm[i][2] <= wavPcm[i][1] /\ wavPcm[i][1] < wavPcm[i][2]
        /\ \A h \in WavHeaders :
              ReadWav(h \o PcmBytes(wavSamples) \o wavTail) = wavPcm

\* two samples, the extremes, in file order, followed by a left-over byte
C10_Witness ==
    /\ wavDone /\ Len(wavHeader) = HeaderLen
    /\ wavSamples = <<32767, -32768>> /\ wavTail # <<>>
    /\ wavPcm = <<<<32767, Scale>>, <<-32768, Scale>>>>

(* ------------------- the stub build (whisper_jni_stub.cpp) ------------- *)
\* The build without whisper.cpp links these five functions instead; none
\* of them has any state, so the harness records the call and its result.
StubVersion == "stub-1.0 (whisper.cpp not available)"

StubCalled(call, result) ==
    /\ stubCount < MaxStubCalls
    /\ stubCall' = call
    /\ stubRet' = result
    /\ stubCount' = stubCount + 1
    /\ UNCHANGED <<bridgeVars, wavVars>>

\* an initModel whose result depends on the path, as the real bridge's does
Stub_initModel_byPath ==
    \E p \in ModelPaths :
        StubCalled(<<"initModel", p>>, RetInt(IF p = BadUTF THEN -1 ELSE -2))

\* stub lines 17-24: return -1
Stub_initModel ==
    \E p \in ModelPaths :
        StubCalled(<<"initModel", p>>, RetInt(-1))

\* stub lines 26-33: return ""
Stub_transcribe ==
    \E a \in AudioPaths :
        StubCalled(<<"transcribe", a>>, RetString(""))

\* stub lines 35-45: return ""
Stub_transcribeWithParams ==
    \E a \in AudioPaths, l \in LanguageArgs, tr \in BOOLEAN, n \in ThreadsArgs :
        StubCalled(<<"transcribeWithParams", a, l, tr, n>>, RetString(""))

\* stub lines 47-52: nothing
Stub_releaseModel == StubCalled(<<"releaseModel">>, RetVoid)

\* stub lines 54-59: the placeholder string
Stub_getVersion == StubCalled(<<"getVersion">>, RetString(StubVersion))

NextStub ==
    \/ Stub_initModel
    \/ Stub_transcribe
    \/ Stub_transcribeWithParams
    \/ Stub_releaseModel
    \/ Stub_getVersion

SpecStub == Init /\ [][NextStub]_vars

\* C11: in the stub build, whatever the arguments and whatever was called
\* before, initModel returns -1, transcribe and transcribeWithParams return
\* "", releaseModel returns nothing, getVersion returns the placeholder, and
\* no model context, parameter, lock or engine call is ever touched.
C11_StubFixed ==
    /\ stubCall[1] = "initModel" => stubRet = RetInt(-1)
    /\ stubCall[1] \in {"transcribe", "transcribeWithParams"} => stubRet = RetString("")
    /\ stubCall[1] = "releaseModel" => stubRet = RetVoid
    /\ stubCall[1] = "getVersion" => stubRet = RetString(StubVersion)
    /\ stubCall[1] = "none" => stubRet = NoRet /\ stubCount = 0
    /\ g_ctx = nullptr /\ live = {} /\ g_mutex = 0 /\ g_params = whisper_params
    /\ \A t \in Threads : nfull[t] = 0 /\ pc[t] = "idle"

\* initModel on a loadable model file, called after an earlier call, fails
C11_Witness ==
    /\ stubCount >= 2
    /\ stubCall = <<"initModel", "model.bin">>
    /\ stubRet = RetInt(-1)

\* C12: a transcribeWithParams call does not own g_mutex between its update
\* section and its transcribe section, and its whisper_full call takes
\* language, translate and thread count from g_params as stored when the
\* transcribe section took the lock, not from its own arguments. (That
\* another caller's values can get in between is the witness.)
C12_UpdateNotAtomic ==
    \A t \in Threads :
        op[t] = "transcribeWithParams" =>
            /\ pc[t] = "tr_lock" => g_mutex # t
            /\ pc[t] = "tr_infer" =>
                  /\ wparams[t].language = atLock.params.language
                  /\ wparams[t].translate = atLock.params.translate
                  /\ wparams[t].n_threads = atLock.params.n_threads

\* a transcribeWithParams call is inside whisper_full with a translate flag
\* that is the opposite of the one it passed
C12_Witness ==
    \E t \in Threads :
        /\ op[t] = "transcribeWithParams" /\ pc[t] = "tr_infer"
        /\ wparams[t].translate # args[t].translate

InInit(t) == pc[t] \in {"init_free", "init_path", "init_load", "init_threads", "init_ret"}
InUpdate(t) == pc[t] \in {"twp_update", "twp_unlock"}
InRelease(t) == pc[t] \in {"rel_free", "rel_ret"}

\* C13: offset, duration and the three diagnostic flags have their defaults
\* in every reachable state; a transcribe or releaseModel section leaves
\* g_params as it found it; an initModel section changes nothing but
\* n_threads, and nothing at all unless it returns 0; an update section of
\* transcribeWithParams changes nothing but language, translate, n_threads.
C13_ParamsFrame ==
    /\ g_params.offset_ms = 0 /\ g_params.duration_ms = 0
    /\ ~g_params.print_special /\ ~g_params.print_progress
    /\ g_params.no_timestamps
    /\ \A t \in Threads :
          g_mutex = t =>
              /\ InTranscribe(t) \/ InRelease(t) => g_params = atLock.params
              /\ InInit(t) =>
                    /\ [g_params EXCEPT !.n_threads = atLock.params.n_threads]
                          = atLock.params
                    /\ ~(pc[t] = "init_ret" /\ ret[t] = RetInt(0))
                          => g_params = atLock.params
              /\ InUpdate(t) =>
                    [g_params EXCEPT !.language = atLock.params.language,
                                     !.translate = atLock.params.translate,
                                     !.n_threads = atLock.params.n_threads]
                       = atLock.params

\* a successful initModel found language "fr", translate on and 8 threads
\* from an earlier override and changed the thread count only
C13_Witness ==
    \E t \in Threads :
        /\ pc[t] = "init_ret" /\ ret[t] = RetInt(0)
        /\ atLock.params.language = "fr" /\ atLock.params.translate
        /\ atLock.params.n_threads = 8
        /\ g_params.language = "fr" /\ g_params.translate
        /\ g_params.n_threads = 2

\* files that hold at least one complete sample after the header
HasSamples(path) ==
    path \in DOMAIN AudioFiles /\ Len(AudioFiles[path]) >= HeaderLen + 2

\* C14: an initModel about to return 0 has g_ctx set to the one live
\* context and n_threads set to the smaller of the reported core count and
\* 4; a transcribe section that found a model and is given a file with
\* samples calls whisper_full exactly once, on that model's context.
C14_SuccessfulInit ==
    \A t \in Threads :
        /\ pc[t] = "init_ret" /\ ret[t] = RetInt(0) =>
              /\ g_ctx \in Handles /\ live = {g_ctx}
              /\ g_params.n_threads =
                    IF args[t].n_cores <= 4 THEN args[t].n_cores ELSE 4
        /\ /\ InTranscribe(t) /\ g_mutex = t /\ atLock.ctx # nullptr
           /\ HasSamples(args[t].audioPath)
           => /\ g_ctx = atLock.ctx /\ g_ctx \in live
              /\ nfull[t] = IF pc[t] \in {"tr_infer", "tr_collect", "tr_ret"}
                            THEN 1 ELSE 0

\* initModel returns 0 on a platform reporting 8 cores: the 8 threads an
\* earlier override had stored become 4
C14_Witness ==
    \E t \in Threads :
        /\ pc[t] = "init_ret" /\ ret[t] = RetInt(0) /\ args[t].n_cores = 8
        /\ atLock.params.n_threads = 8 /\ g_params.n_threads = 4
        /\ g_ctx \in live

(* ------------------------------- fairness ------------------------------ *)
\* the lock_guard constructors of thread t
Acquire(t) ==
    \/ initModel_lock(t)
    \/ transcribe_lock(t)
    \/ transcribeWithParams_lock(t)
    \/ releaseModel_lock(t)

\* the steps thread t takes while it owns g_mutex
Section(t) ==
    \/ initModel_free(t)
    \/ initModel_path(t)
    \/ initModel_load(t)
    \/ initModel_threads(t)
    \/ initModel_return(t)
    \/ transcribe_check(t)
    \/ transcribe_path(t)
    \/ transcribe_read(t)
    \/ transcribe_empty(t)
    \/ transcribe_full(t)
    \/ transcribe_infer(t)
    \/ transcribe_collect(t)
    \/ transcribe_return(t)
    \/ transcribeWithParams_update(t)
    \/ transcribeWithParams_unlock(t)
    \/ releaseModel_free(t)
    \/ releaseModel_return(t)

\* a running thread keeps running, engine calls return, and a thread that
\* waits for g_mutex gets it if it is free again and again
FairSpec ==
    /\ Spec
    /\ \A t \in Threads : WF_vars(Section(t)) /\ SF_vars(Acquire(t))

\* C15: g_mutex is owned only by a thread inside one of the locked sections
\* (never by a thread that has returned, and never by a transcribeWithParams
\* call that is about to take it again), and, with engine calls returning
\* and the lock granted fairly, every call that was made returns.
C15_Terminates ==
    /\ [](\A t \in Threads : g_mutex = t => InSection(t))
    /\ [](g_mutex \in Threads \cup {0})
    /\ \A t \in Threads : (pc[t] # "idle") ~> (pc[t] = "idle")

\* while one thread is inside whisper_full, every other thread waits for
\* the lock
C15_Witness ==
    \E t \in Threads :
        /\ pc[t] = "tr_infer" /\ g_mutex = t
        /\ \A u \in Threads \ {t} :
              pc[u] \in {"init_lock", "tr_lock", "twp_lock", "rel_lock"}

\* the text the bridge is to return for each segment list the engine may
\* leave: the segment texts in index order, nothing in between, nothing for
\* a segment without text
ExpectedText(segs) ==
    CASE segs = <<>> -> ""
      [] segs = <<"ab", NullChars, "c">> -> "abc"

\* C16: whisper_full is called with greedy sampling, single-segment mode on,
\* realtime printing off and every other field taken from g_params as stored
\* while this transcribe section holds the lock; a transcribe that called
\* whisper_full returns "" when the status is not 0 and otherwise the segment
\* texts of the context joined in index order.
C16_TranscribeResult ==
    \A t \in Threads :
        InTranscribe(t) /\ g_mutex = t /\ nfull[t] = 1 =>
            /\ wparams[t] =
                  [strategy |-> "WHISPER_SAMPLING_GREEDY",
                   single_segment |-> TRUE,
                   print_realtime |-> FALSE,
                   print_progress |-> atLock.params.print_progress,
                   print_timestamps |-> ~atLock.params.no_timestamps,
                   print_special |-> atLock.params.print_special,
                   translate |-> atLock.params.translate,
                   language |-> atLock.params.language,
                   n_threads |-> atLock.params.n_threads,
                   offset_ms |-> atLock.params.offset_ms,
                   duration_ms |-> atLock.params.duration_ms]
            /\ pc[t] = "tr_ret" =>
                  ret[t] = IF args[t].status # 0 THEN RetString("")
                           ELSE RetString(ExpectedText(segments[g_ctx]))

\* a transcribe whose inference left three segments, the middle one without
\* text, is about to return the two texts joined
C16_Witness ==
    \E t \in Threads :
        /\ pc[t] = "tr_ret" /\ nfull[t] = 1 /\ args[t].status = 0
        /\ g_ctx \in Handles /\ Len(segments[g_ctx]) = 3
        /\ ret[t] = RetString("abc")

InEngine(t) == pc[t] \in {"tr_infer", "tr_collect"}

\* C17: no whisper_full call was ever given a context that is not live;
\* while a thread is inside whisper_full or reads the segments, g_ctx is
\* live and is the context the section found, and no other thread is at a
\* statement of initModel or releaseModel that frees or replaces g_ctx.
C17_NoUseAfterFree ==
    /\ ~staleUse
    /\ \A t \in Threads :
          InEngine(t) =>
              /\ g_ctx \in live
              /\ \A u \in Threads \ {t} : ~InInit(u) /\ ~InRelease(u)
              /\ g_mutex = t => g_ctx = atLock.ctx

\* one thread is inside whisper_full while another waits at the lock of
\* releaseModel
C17_Witness ==
    \E t, u \in Threads :
        pc[t] = "tr_infer" /\ g_ctx \in live /\ pc[u] = "rel_lock"

\* C18: the update section of transcribeWithParams stores its overrides also
\* when no model is loaded, and a transcribe section delegated from
\* transcribeWithParams that is about to return "" has left g_params as it
\* found it, so a failed call does not undo its overrides.
C18_OverridesSurviveFailure ==
    \A t \in Threads :
        /\ pc[t] = "twp_unlock" /\ atLock.ctx = nullptr =>
              /\ g_ctx = nullptr
              /\ g_params.translate = args[t].translate
              /\ args[t].language # BadUTF => g_params.language = args[t].language
              /\ args[t].threads > 0 => g_params.n_threads = args[t].threads
        /\ /\ op[t] = "transcribeWithParams" /\ pc[t] = "tr_ret" /\ g_mutex = t
           /\ ret[t] = RetString("")
           => g_params = atLock.params

\* with no model loaded, transcribeWithParams("fr", true, 8) is about to
\* return "" and the three values are stored
C18_Witness ==
    \E t \in Threads :
        /\ op[t] = "transcribeWithParams" /\ pc[t] = "tr_ret"
        /\ ret[t] = RetString("") /\ atLock.ctx = nullptr /\ live = {}
        /\ args[t].translate /\ g_params.translate
        /\ g_params.language = "fr" /\ g_params.n_threads = 8

====
